---- MODULE Spec2Model ----
(***************************************************************************)
(* Model of src/pin.rs (PinValue, PinState, PinOperation, PinCollection)   *)
(* and src/helper.rs of rust-arduino-mqtt-pin.                             *)
(*                                                                         *)
(* Representation.                                                         *)
(*   Option<T>      None is <<>>, Some(x) is <<x>>.                        *)
(*   DateTime       an integer number of seconds.                          *)
(*   PinValue       [kind, b, n]: kind is the variant, b the payload of    *)
(*                  Digital, n the payload of Analog and of Temperature    *)
(*                  (hundredths of a degree); the field a variant does not *)
(*                  carry holds a fixed filler (FALSE, 0).                 *)
(*   PinState       [pin, value, dt, until].                               *)
(*   ArrayDeque     a sequence whose element 1 is the front.               *)
(*   &str           a sequence of one-character strings.                   *)
(***************************************************************************)
EXTENDS Integers, Sequences, FiniteSets, TLC

VARIABLES
    states,     \* PinCollection.states
    changed,    \* PinCollection.changed
    now,        \* the value Local::now() returns
    pushed,     \* history: every state handed to push, oldest first
    recorded,   \* history: every state push put on `changed`, oldest first
    topic,      \* MosqMessage::topic() of the message being parsed
    text,       \* MosqMessage::text() of the message being parsed
    result,     \* Option<Result<PinOperation, &str>> of from_message
    calls,      \* number of push calls made after construction
    percent,    \* the argument of percent_to_analog
    analog      \* Option<u16>: what percent_to_analog returned

vars == <<states, changed, now, pushed, recorded, topic, text, result, calls,
         percent, analog>>

(***************************************************************************)
(* Bounds of the exploration.                                              *)
(***************************************************************************)
\* pushes explored after construction
MaxPushes == 2
\* the clock runs over 0..MaxTime
MaxTime == 2
\* the expiry instant carried by pushed states that have one
UntilAt == 1

\* ArrayDeque<[PinState; 20], Wrapping>
CAPACITY == 20

None == <<>>
Some(x) == <<x>>
is_some(o) == o # <<>>
unwrap(o) == o[1]

Min(a, b) == IF a < b THEN a ELSE b

Reverse(s) == [i \in 1..Len(s) |-> s[Len(s) + 1 - i]]

(***************************************************************************)
(* PinValue                                                                *)
(***************************************************************************)
Temperature(v) == [kind |-> "Temperature", b |-> FALSE, n |-> v]
Analog(v) == [kind |-> "Analog", b |-> FALSE, n |-> v]
Digital(v) == [kind |-> "Digital", b |-> v, n |-> 0]

is_digital(value) == value.kind = "Digital"
is_analog(value) == value.kind = "Analog"
is_temperature(value) == value.kind = "Temperature"

PinState(pin, value, dt, until) ==
    [pin |-> pin, value |-> value, dt |-> dt, until |-> until]

(***************************************************************************)
(* ArrayDeque<[PinState; 20], Wrapping>                                    *)
(***************************************************************************)
\* push_front on a full Wrapping deque drops the back element first
push_front(q, x) ==
    IF Len(q) = CAPACITY
    THEN <<x>> \o SubSeq(q, 1, CAPACITY - 1)
    ELSE <<x>> \o q

front(q) == IF q = <<>> THEN None ELSE Some(q[1])

\* iter().filter(p).next() for p = "has the given variant"
first_of_kind(q, kind) ==
    LET idx == {i \in 1..Len(q) : q[i].value.kind = kind}
    IN  IF idx = {} THEN None
        ELSE Some(q[CHOOSE i \in idx : \A j \in idx : i <= j])

(***************************************************************************)
(* PinCollection                                                           *)
(***************************************************************************)
default == [states |-> <<>>, changed |-> <<>>]

push_changed_back(self, state) ==
    LET record ==
            IF is_digital(state.value)
            THEN LET last_state == first_of_kind(self.changed, "Digital")
                 IN  IF is_some(last_state)
                     THEN state.value.b # unwrap(last_state).value.b
                     ELSE TRUE
            ELSE IF is_analog(state.value)
            THEN LET last_state == first_of_kind(self.changed, "Analog")
                 IN  IF is_some(last_state)
                     THEN LET c == unwrap(last_state).value.n
                              v == state.value.n
                          IN  (c = 0 /\ v > 0) \/ (c > 0 /\ v = 0)
                     ELSE TRUE
            ELSE FALSE
    IN  [changed |-> IF ~record THEN self.changed
                     ELSE IF Len(self.changed) = CAPACITY
                     THEN Append(Tail(self.changed), state)
                     ELSE Append(self.changed, state),
         states |-> push_front(self.states, state)]

push_states_back(self, state) ==
    LET record ==
            IF is_digital(state.value)
            THEN LET last_state == first_of_kind(self.changed, "Digital")
                 IN  IF is_some(last_state)
                     THEN state.value.b # unwrap(last_state).value.b
                     ELSE TRUE
            ELSE IF is_analog(state.value)
            THEN LET last_state == first_of_kind(self.changed, "Analog")
                 IN  IF is_some(last_state)
                     THEN LET c == unwrap(last_state).value.n
                              v == state.value.n
                          IN  (c = 0 /\ v > 0) \/ (c > 0 /\ v = 0)
                     ELSE TRUE
            ELSE FALSE
    IN  [changed |-> IF record THEN push_front(self.changed, state) ELSE self.changed,
         states |-> IF Len(self.states) = CAPACITY
                    THEN Append(Tail(self.states), state)
                    ELSE Append(self.states, state)]

push_any_analog_change(self, state) ==
    LET record ==
            IF is_digital(state.value)
            THEN LET last_state == first_of_kind(self.changed, "Digital")
                 IN  IF is_some(last_state)
                     THEN state.value.b # unwrap(last_state).value.b
                     ELSE TRUE
            ELSE IF is_analog(state.value)
            THEN LET last_state == first_of_kind(self.changed, "Analog")
                 IN  IF is_some(last_state)
                     THEN unwrap(last_state).value.n # state.value.n
                     ELSE TRUE
            ELSE FALSE
    IN  [changed |-> IF record THEN push_front(self.changed, state) ELSE self.changed,
         states |-> push_front(self.states, state)]

push_temperature_recorded(self, state) ==
    LET record ==
            IF is_digital(state.value)
            THEN LET last_state == first_of_kind(self.changed, "Digital")
                 IN  IF is_some(last_state)
                     THEN state.value.b # unwrap(last_state).value.b
                     ELSE TRUE
            ELSE IF is_analog(state.value)
            THEN LET last_state == first_of_kind(self.changed, "Analog")
                 IN  IF is_some(last_state)
                     THEN LET c == unwrap(last_state).value.n
                              v == state.value.n
                          IN  (c = 0 /\ v > 0) \/ (c > 0 /\ v = 0)
                     ELSE TRUE
            ELSE self.changed = <<>>
    IN  [changed |-> IF record THEN push_front(self.changed, state) ELSE self.changed,
         states |-> push_front(self.states, state)]

push_refreshing_front(self, state) ==
    LET record ==
            IF is_digital(state.value)
            THEN LET last_state == first_of_kind(self.changed, "Digital")
                 IN  IF is_some(last_state)
                     THEN state.value.b # unwrap(last_state).value.b
                     ELSE TRUE
            ELSE IF is_analog(state.value)
            THEN LET last_state == first_of_kind(self.changed, "Analog")
                 IN  IF is_some(last_state)
                     THEN LET c == unwrap(last_state).value.n
                              v == state.value.n
                          IN  (c = 0 /\ v > 0) \/ (c > 0 /\ v = 0)
                     ELSE TRUE
            ELSE FALSE
    IN  [changed |-> IF record THEN push_front(self.changed, state)
                     ELSE IF /\ self.changed # <<>>
                             /\ ~is_temperature(state.value)
                             /\ self.changed[1].value.kind = state.value.kind
                     THEN <<state>> \o Tail(self.changed)
                     ELSE self.changed,
         states |-> push_front(self.states, state)]

\* `record` is the condition under which the code reaches
\* self.changed.push_front(state.clone())
push(self, state) ==
    LET record ==
            IF is_digital(state.value)
            THEN LET last_state == first_of_kind(self.changed, "Digital")
                 IN  IF is_some(last_state)
                     THEN state.value.b # unwrap(last_state).value.b
                     ELSE TRUE
            ELSE IF is_analog(state.value)
            THEN LET last_state == first_of_kind(self.changed, "Analog")
                 IN  IF is_some(last_state)
                     THEN LET c == unwrap(last_state).value.n
                              v == state.value.n
                          IN  (c = 0 /\ v > 0) \/ (c > 0 /\ v = 0)
                     ELSE TRUE
            ELSE FALSE
    IN  [changed |-> IF record THEN push_front(self.changed, state) ELSE self.changed,
         states |-> push_front(self.states, state)]

from_states_loop_newest_first(c, vec, i) ==
    LET RECURSIVE loop(_, _)
        loop(acc, k) ==
            IF k > Len(vec) THEN acc
            ELSE LET next == push(acc, vec[Len(vec) + 1 - k])
                 IN  IF Len(next.states) <= CAPACITY THEN loop(next, k + 1) ELSE next
    IN  loop(c, i)

\* for state in states { col.push(state); }, from element i of vec on.
\* The test on `next` makes each iteration finish its push before the next
\* one starts (it never fails: push_front keeps a deque within CAPACITY).
RECURSIVE from_states_loop(_, _, _)
from_states_loop(c, vec, i) ==
    IF i > Len(vec) THEN c
    ELSE LET next == push(c, vec[i])
         IN  IF Len(next.states) <= CAPACITY
             THEN from_states_loop(next, vec, i + 1)
             ELSE next

from_states(vec) == from_states_loop(default, vec, 1)

is_on_at_expiry(self, clock) ==
    LET f == front(self.changed)
    IN  IF is_some(f)
        THEN LET state == unwrap(f)
             IN  (IF is_some(state.until) THEN unwrap(state.until) >= clock ELSE TRUE)
                 /\ (CASE is_digital(state.value) -> state.value.b
                       [] is_analog(state.value) -> state.value.n > 0
                       [] OTHER -> FALSE)
        ELSE FALSE

is_on(self, clock) ==
    LET f == front(self.changed)
    IN  IF is_some(f)
        THEN LET state == unwrap(f)
             IN  (IF is_some(state.until) THEN unwrap(state.until) > clock ELSE TRUE)
                 /\ (CASE is_digital(state.value) -> state.value.b
                       [] is_analog(state.value) -> state.value.n > 0
                       [] OTHER -> FALSE)
        ELSE FALSE

is_off_ignoring_expiry(self, clock) ==
    LET f == front(self.changed)
    IN  IF is_some(f)
        THEN LET state == unwrap(f)
             IN  (CASE is_digital(state.value) -> ~state.value.b
                    [] is_analog(state.value) -> state.value.n = 0
                    [] OTHER -> FALSE)
        ELSE FALSE

is_off(self, clock) ==
    LET f == front(self.changed)
    IN  IF is_some(f)
        THEN LET state == unwrap(f)
             IN  (IF is_some(state.until) THEN unwrap(state.until) > clock ELSE TRUE)
                 /\ (CASE is_digital(state.value) -> ~state.value.b
                       [] is_analog(state.value) -> state.value.n = 0
                       [] OTHER -> FALSE)
        ELSE FALSE

\* helper.rs average: the sum of the numbers folded from zero, divided by
\* their count, and 0 for no numbers.  The quotient is kept as the fraction
\* num / den (f32 rounding is not modelled).
RECURSIVE average_fold(_, _, _)
average_fold(numbers, i, sum) ==
    IF i > Len(numbers) THEN sum
    ELSE average_fold(numbers, i + 1, sum + numbers[i])

average(numbers) ==
    IF Len(numbers) > 0
    THEN [num |-> average_fold(numbers, 1, 0), den |-> Len(numbers)]
    ELSE [num |-> 0, den |-> 1]

get_average_temperature_from_since(self, since) ==
    LET in_window(state) == state.dt >= since
        is_reading(state) == is_temperature(state.value)
        kept == SelectSeq(SelectSeq(self.states, in_window), is_reading)
        vec == [i \in 1..Len(kept) |-> kept[i].value.n]
    IN  IF Len(vec) > 0 THEN Some(average(vec)) ELSE None

get_average_temperature(self, since) ==
    LET in_window(state) == state.dt > since
        is_reading(state) == is_temperature(state.value)
        kept == SelectSeq(SelectSeq(self.states, in_window), is_reading)
        vec == [i \in 1..Len(kept) |-> kept[i].value.n]
    IN  IF Len(vec) > 0 THEN Some(average(vec)) ELSE None

get_last_changed_dt_of_back(self) ==
    IF self.changed = <<>> THEN None
    ELSE Some(self.changed[Len(self.changed)].dt)

get_last_changed_dt(self) ==
    LET f == front(self.changed) IN IF is_some(f) THEN Some(unwrap(f).dt) ELSE None

get_last_changed_value(self) ==
    LET f == front(self.changed) IN IF is_some(f) THEN Some(unwrap(f).value) ELSE None

get_last_changed(self) == front(self.changed)

(***************************************************************************)
(* &str: split, comparison with literals, str::parse                       *)
(***************************************************************************)
s_current == <<"c", "u", "r", "r", "e", "n", "t">>
s_timeout == <<"t", "i", "m", "e", "o", "u", "t">>
s_digital == <<"d", "i", "g", "i", "t", "a", "l">>
s_analog == <<"a", "n", "a", "l", "o", "g">>
s_temperature == <<"t", "e", "m", "p", "e", "r", "a", "t", "u", "r", "e">>

\* u8::MAX, u16::MAX and u32::MAX in decimal digits (u32::MAX is beyond the
\* integers TLC computes with, so bounds are compared digit by digit)
U8_MAX == <<"2", "5", "5">>
U16_MAX == <<"6", "5", "5", "3", "5">>
U32_MAX == <<"4", "2", "9", "4", "9", "6", "7", "2", "9", "5">>

Ok(x) == [ok |-> TRUE, val |-> <<x>>, err |-> ""]
Err(e) == [ok |-> FALSE, val |-> <<>>, err |-> e]
\* the call does not return: unwrap() was called on an Err
Panic == [ok |-> FALSE, val |-> <<>>, err |-> "called Result::unwrap() on an Err value"]

\* topic.split("/").collect(): the pieces between the separators, in order;
\* a string without separator is one piece, an empty piece is kept
split(s) ==
    LET seps == {i \in 1..Len(s) : s[i] = "/"}
        n == Cardinality(seps) + 1
        sep(k) == IF k = 0 THEN 0
                  ELSE IF k = n THEN Len(s) + 1
                  ELSE CHOOSE i \in seps : Cardinality({j \in seps : j < i}) = k - 1
    IN  [k \in 1..n |-> SubSeq(s, sep(k - 1) + 1, sep(k) - 1)]

is_digit(c) == c \in {"0", "1", "2", "3", "4", "5", "6", "7", "8", "9"}
to_digit(c) ==
    CASE c = "0" -> 0 [] c = "1" -> 1 [] c = "2" -> 2 [] c = "3" -> 3
      [] c = "4" -> 4 [] c = "5" -> 5 [] c = "6" -> 6 [] c = "7" -> 7
      [] c = "8" -> 8 [] c = "9" -> 9

\* the number written by the digits d exceeds the number written by max
exceeds(d, max) ==
    LET zeros == {i \in 0..Len(d) : \A j \in 1..i : d[j] = "0"}
        lead == CHOOSE i \in zeros : \A j \in zeros : j <= i
        sig == SubSeq(d, lead + 1, Len(d))
    IN  \/ Len(sig) > Len(max)
        \/ /\ Len(sig) = Len(max)
           /\ \E i \in 1..Len(sig) :
                 /\ to_digit(sig[i]) > to_digit(max[i])
                 /\ \A j \in 1..(i - 1) : sig[j] = max[j]

\* the value of the digits s[i..], added to acc
RECURSIVE digits_value(_, _, _)
digits_value(s, i, acc) ==
    IF i > Len(s) THEN acc
    ELSE digits_value(s, i + 1, acc * 10 + to_digit(s[i]))

\* the digit loop of str::parse for an unsigned type: an error on a
\* character that is no digit and on a value above the type's maximum (the
\* code's checked multiply and add), else the value
parse_digits(s, max) ==
    IF \E i \in 1..Len(s) : ~is_digit(s[i]) THEN None
    ELSE IF exceeds(s, max) THEN None
    ELSE Some(digits_value(s, 1, 0))

\* s.parse::<u8 | u16 | u32>() as an Option: the empty string and a lone
\* sign are errors, one leading "+" is accepted, "-" is not
parse_unsigned(s, max) ==
    IF s = <<>> THEN None
    ELSE IF Len(s) = 1 /\ s[1] \in {"+", "-"} THEN None
    ELSE IF s[1] = "+" THEN parse_digits(Tail(s), max)
    ELSE parse_digits(s, max)

\* s.parse::<f32>() as an Option, for the decimal notation
\* [+|-] digits [. digits] with at least one digit; the value is kept in
\* hundredths of a unit, further decimals are dropped
parse_f32(s) ==
    LET signed == s # <<>> /\ s[1] \in {"+", "-"}
        body == IF signed THEN Tail(s) ELSE s
        dots == {i \in 1..Len(body) : body[i] = "."}
        dot == IF dots = {} THEN Len(body) + 1 ELSE CHOOSE i \in dots : TRUE
        int == SubSeq(body, 1, dot - 1)
        frac == SubSeq(body, dot + 1, Len(body))
        digit_at(k) == IF k <= Len(frac) THEN to_digit(frac[k]) ELSE 0
        whole == IF int = <<>> THEN 0 ELSE digits_value(int, 1, 0)
    IN  IF \/ Cardinality(dots) > 1
           \/ Len(int) + Len(frac) = 0
           \/ \E i \in 1..Len(body) : ~is_digit(body[i]) /\ body[i] # "."
        THEN None
        ELSE LET magnitude == whole * 100 + digit_at(1) * 10 + digit_at(2)
             IN  Some(IF signed /\ s[1] = "-" THEN 0 - magnitude ELSE magnitude)

(***************************************************************************)
(* PinValue::from_string                                                   *)
(***************************************************************************)
from_string_digital_u16(kind, message) ==
    IF kind = s_digital
    THEN LET value == parse_unsigned(message, U16_MAX)
         IN  IF is_some(value) THEN Ok(Digital(unwrap(value) > 0))
             ELSE Err("Unable to parse digital value")
    ELSE IF kind = s_analog
    THEN LET value == parse_unsigned(message, U16_MAX)
         IN  IF is_some(value) THEN Ok(Analog(unwrap(value)))
             ELSE Err("Unable to parse analog value")
    ELSE IF kind = s_temperature
    THEN LET value == parse_f32(message)
         IN  IF is_some(value) THEN Ok(Temperature(unwrap(value)))
             ELSE Err("Unable to parse temparature value")
    ELSE Err("Unknown pin value type")

from_string_analog_u32(kind, message) ==
    IF kind = s_digital
    THEN LET value == parse_unsigned(message, U8_MAX)
         IN  IF is_some(value) THEN Ok(Digital(unwrap(value) > 0))
             ELSE Err("Unable to parse digital value")
    ELSE IF kind = s_analog
    THEN LET value == parse_unsigned(message, U32_MAX)
         IN  IF is_some(value) THEN Ok(Analog(unwrap(value)))
             ELSE Err("Unable to parse analog value")
    ELSE IF kind = s_temperature
    THEN LET value == parse_f32(message)
         IN  IF is_some(value) THEN Ok(Temperature(unwrap(value)))
             ELSE Err("Unable to parse temparature value")
    ELSE Err("Unknown pin value type")

from_string(kind, message) ==
    IF kind = s_digital
    THEN LET value == parse_unsigned(message, U8_MAX)
         IN  IF is_some(value) THEN Ok(Digital(unwrap(value) > 0))
             ELSE Err("Unable to parse digital value")
    ELSE IF kind = s_analog
    THEN LET value == parse_unsigned(message, U16_MAX)
         IN  IF is_some(value) THEN Ok(Analog(unwrap(value)))
             ELSE Err("Unable to parse analog value")
    ELSE IF kind = s_temperature
    THEN LET value == parse_f32(message)
         IN  IF is_some(value) THEN Ok(Temperature(unwrap(value)))
             ELSE Err("Unable to parse temparature value")
    ELSE Err("Unknown pin value type")

(***************************************************************************)
(* PinOperation::from_message                                              *)
(***************************************************************************)
PinOperation(pin_state, node) == [pin_state |-> pin_state, node |-> node]

\* paths.pop() at the k-th call: the k-th element from the end, if any
pop(paths, k) == IF k <= Len(paths) THEN Some(paths[Len(paths) + 1 - k]) ELSE None

from_message_unguarded_unwrap(msg_topic, msg_text, clock) ==
    LET paths == split(msg_topic)
        pin == parse_unsigned(unwrap(pop(paths, 1)), U8_MAX)
        value == from_string(unwrap(pop(paths, 2)), msg_text)
        op_current == pop(paths, 3)
        node == pop(paths, 4)
        timeout == parse_unsigned(unwrap(op_current), U32_MAX)
        is_time_out == IF is_some(pop(paths, 5))
                       THEN Some(unwrap(pop(paths, 5)) = s_timeout) ELSE None
        unwrapped == is_some(is_time_out)
        until == IF unwrapped THEN Some(clock + unwrap(timeout)) ELSE None
    IN  IF pop(paths, 1) = None THEN Err("Unable to read string")
        ELSE IF pin = None THEN Err("Unable to parse integer")
        ELSE IF pop(paths, 2) = None THEN Err("Unknown pin")
        ELSE IF ~value.ok THEN Err(value.err)
        ELSE IF op_current = None THEN Err("Expected current")
        ELSE IF node = None THEN Err("Unknown node")
        ELSE IF s_current = unwrap(op_current)
        THEN Ok(PinOperation(PinState(unwrap(pin), unwrap(value.val), clock, None),
                             unwrap(node)))
        ELSE IF unwrapped /\ timeout = None THEN Panic
        ELSE IF is_some(until) /\ pop(paths, 6) = None
        THEN Err("Unknown node after timeout")
        ELSE Ok(PinOperation(PinState(unwrap(pin), unwrap(value.val), clock, until),
                             IF is_some(until) THEN unwrap(pop(paths, 6))
                             ELSE unwrap(node)))

from_message_marker_checked(msg_topic, msg_text, clock) ==
    LET paths == split(msg_topic)
        pin == parse_unsigned(unwrap(pop(paths, 1)), U8_MAX)
        value == from_string(unwrap(pop(paths, 2)), msg_text)
        op_current == pop(paths, 3)
        node == pop(paths, 4)
        timeout == parse_unsigned(unwrap(op_current), U32_MAX)
        is_time_out == IF is_some(pop(paths, 5))
                       THEN Some(unwrap(pop(paths, 5)) = s_timeout) ELSE None
        unwrapped == is_time_out = Some(TRUE) /\ is_some(timeout)
        until == IF unwrapped THEN Some(clock + unwrap(timeout)) ELSE None
    IN  IF pop(paths, 1) = None THEN Err("Unable to read string")
        ELSE IF pin = None THEN Err("Unable to parse integer")
        ELSE IF pop(paths, 2) = None THEN Err("Unknown pin")
        ELSE IF ~value.ok THEN Err(value.err)
        ELSE IF op_current = None THEN Err("Expected current")
        ELSE IF node = None THEN Err("Unknown node")
        ELSE IF s_current = unwrap(op_current)
        THEN Ok(PinOperation(PinState(unwrap(pin), unwrap(value.val), clock, None),
                             unwrap(node)))
        ELSE IF unwrapped /\ timeout = None THEN Panic
        ELSE IF is_some(until) /\ pop(paths, 6) = None
        THEN Err("Unknown node after timeout")
        ELSE Ok(PinOperation(PinState(unwrap(pin), unwrap(value.val), clock, until),
                             IF is_some(until) THEN unwrap(pop(paths, 6))
                             ELSE unwrap(node)))

from_message_current_as_node(msg_topic, msg_text, clock) ==
    LET paths == split(msg_topic)
        pin == parse_unsigned(unwrap(pop(paths, 1)), U8_MAX)
        value == from_string(unwrap(pop(paths, 2)), msg_text)
        op_current == pop(paths, 3)
        node == pop(paths, 4)
        timeout == parse_unsigned(unwrap(op_current), U32_MAX)
        is_time_out == IF is_some(pop(paths, 5))
                       THEN Some(unwrap(pop(paths, 5)) = s_timeout) ELSE None
        unwrapped == is_some(is_time_out) /\ is_some(timeout)
        until == IF unwrapped THEN Some(clock + unwrap(timeout)) ELSE None
    IN  IF pop(paths, 1) = None THEN Err("Unable to read string")
        ELSE IF pin = None THEN Err("Unable to parse integer")
        ELSE IF pop(paths, 2) = None THEN Err("Unknown pin")
        ELSE IF ~value.ok THEN Err(value.err)
        ELSE IF op_current = None THEN Err("Expected current")
        ELSE IF node = None THEN Err("Unknown node")
        ELSE IF s_current = unwrap(op_current)
        THEN Ok(PinOperation(PinState(unwrap(pin), unwrap(value.val), clock, None),
                             unwrap(op_current)))
        ELSE IF unwrapped /\ timeout = None THEN Panic
        ELSE IF is_some(until) /\ pop(paths, 6) = None
        THEN Err("Unknown node after timeout")
        ELSE Ok(PinOperation(PinState(unwrap(pin), unwrap(value.val), clock, until),
                             IF is_some(until) THEN unwrap(pop(paths, 6))
                             ELSE unwrap(node)))

\* The pops are numbered in the order the code makes them; each `?` is one
\* branch of the IF chain, in the order the code reaches it.  `clock` is the
\* value of Local::now() during the call.  `unwrapped` is the condition
\* under which the code evaluates timeout.unwrap(), which panics on an Err.
from_message(msg_topic, msg_text, clock) ==
    LET paths == split(msg_topic)
        pin == parse_unsigned(unwrap(pop(paths, 1)), U8_MAX)
        value == from_string(unwrap(pop(paths, 2)), msg_text)
        op_current == pop(paths, 3)
        node == pop(paths, 4)
        timeout == parse_unsigned(unwrap(op_current), U32_MAX)
        is_time_out == IF is_some(pop(paths, 5))
                       THEN Some(unwrap(pop(paths, 5)) = s_timeout) ELSE None
        unwrapped == is_some(is_time_out) /\ is_some(timeout)
        until == IF unwrapped THEN Some(clock + unwrap(timeout)) ELSE None
    IN  IF pop(paths, 1) = None THEN Err("Unable to read string")
        ELSE IF pin = None THEN Err("Unable to parse integer")
        ELSE IF pop(paths, 2) = None THEN Err("Unknown pin")
        ELSE IF ~value.ok THEN Err(value.err)
        ELSE IF op_current = None THEN Err("Expected current")
        ELSE IF node = None THEN Err("Unknown node")
        ELSE IF s_current = unwrap(op_current)
        THEN Ok(PinOperation(PinState(unwrap(pin), unwrap(value.val), clock, None),
                             unwrap(node)))
        ELSE IF unwrapped /\ timeout = None THEN Panic
        ELSE IF is_some(until) /\ pop(paths, 6) = None
        THEN Err("Unknown node after timeout")
        ELSE Ok(PinOperation(PinState(unwrap(pin), unwrap(value.val), clock, until),
                             IF is_some(until) THEN unwrap(pop(paths, 6))
                             ELSE unwrap(node)))

\* the collection held in the variables
col == [states |-> states, changed |-> changed]

(***************************************************************************)
(* Inputs                                                                  *)
(***************************************************************************)
Pins == {3}
Values == {Digital(TRUE), Digital(FALSE), Analog(0), Analog(50), Analog(80),
           Temperature(1000), Temperature(2000)}
Untils == {None, Some(UntilAt)}

\* the value and expiry of a state handed to push: an expiry is drawn for
\* one value of each class is_on and is_off tell apart; a second "on"
\* reading and the temperatures, whose expiry no code reads, carry none
Inputs ==
    {[value |-> value, until |-> until] :
        value \in {Digital(TRUE), Digital(FALSE), Analog(0), Analog(50)},
        until \in Untils}
    \cup {[value |-> value, until |-> None] :
            value \in Values \ {Digital(TRUE), Digital(FALSE), Analog(0), Analog(50)}}

\* Vec<PinState> handed to from_states: a Digital(true) followed by analog
\* readings that cross zero every time, or temperature readings only
toggle(n) ==
    [i \in 1..n |->
        PinState(3, IF i = 1 THEN Digital(TRUE)
                    ELSE IF i % 2 = 0 THEN Analog(0) ELSE Analog(50), 0, None)]
temps(n) == [i \in 1..n |-> PinState(3, Temperature(2000), 0, None)]

Seeds ==
    {toggle(n) : n \in {0, CAPACITY - 1, CAPACITY + 1}} \cup {temps(CAPACITY)}

\* the states among vec that push puts on `changed` when from_states replays
\* vec, oldest first
recorded_of(vec) ==
    LET before(i) == from_states(SubSeq(vec, 1, i - 1))
        keep == {i \in 1..Len(vec) :
                    push(before(i), vec[i]).changed # before(i).changed}
    IN  [k \in 1..Cardinality(keep) |->
            vec[CHOOSE i \in keep : Cardinality({j \in keep : j < i}) = k - 1]]

(***************************************************************************)
(* Specification of the collection: built by from_states (default() when   *)
(* the vector is empty), then pushed to while the clock advances.          *)
(***************************************************************************)
Init ==
    \E seed \in Seeds :
        /\ states = from_states(seed).states
        /\ changed = from_states(seed).changed
        /\ pushed = seed
        /\ recorded = recorded_of(seed)
        /\ now = 0
        /\ topic = <<>>
        /\ text = <<>>
        /\ result = None
        /\ calls = 0
    /\ percent = 0
    /\ analog = None
        /\ percent = 0
        /\ analog = None

Push ==
    /\ calls < MaxPushes
    /\ calls' = calls + 1
    /\ \E pin \in Pins, input \in Inputs :
          LET state == PinState(pin, input.value, now, input.until)
              after == push(col, state)
          IN  /\ states' = after.states
              /\ changed' = after.changed
              /\ pushed' = Append(pushed, state)
              /\ recorded' = IF after.changed # changed
                             THEN Append(recorded, state) ELSE recorded
    /\ UNCHANGED <<now, topic, text, result, percent, analog>>

Tick ==
    /\ now < MaxTime
    /\ now' = now + 1
    /\ UNCHANGED <<states, changed, pushed, recorded, topic, text, result, calls,
                   percent, analog>>

Next == Push \/ Tick

Spec == Init /\ [][Next]_vars

(***************************************************************************)
(* Specification of the parser: one message, whose topic is made of up to  *)
(* MaxSegments segments and whose payload is drawn from Payloads, is       *)
(* parsed once at some instant of the clock.                               *)
(***************************************************************************)
\* segments a topic is made of
MaxSegments == 6

s_node1 == <<"n", "o", "d", "e", "1">>
s_3600 == <<"3", "6", "0", "0">>
s_2332 == <<"2", "3", "3", "2">>
s_2342 == <<"2", "3", "4", "2">>

\* the segments tried at the k-th place from the end of a topic
SegmentsAt(k) ==
    CASE k = 1 -> {<<"3">>, <<"8">>, <<"x">>, <<"2", "5", "6">>}
      [] k = 2 -> {s_analog, s_digital, s_temperature, <<"v", "o", "l", "t">>}
      [] k = 3 -> {s_current, s_3600, <<"x">>,
                   <<"4", "2", "9", "4", "9", "6", "7", "2", "9", "6">>}
      [] k = 4 -> {s_node1, s_timeout, <<>>}
      [] OTHER -> {s_node1, s_current}

s_256 == <<"2", "5", "6">>
s_70000 == <<"7", "0", "0", "0", "0">>
s_20_5 == <<"2", "0", ".", "5">>

Payloads == {s_2332, s_2342, <<"1">>, <<"0">>, <<"x">>,
             s_256, s_70000, s_20_5, <<"+", "1">>, <<>>}

\* segs joined with "/"
RECURSIVE Join(_)
Join(segs) ==
    IF Len(segs) = 1 THEN segs[1]
    ELSE segs[1] \o <<"/">> \o Join(Tail(segs))

\* the topics of n segments
RECURSIVE SegmentLists(_)
SegmentLists(n) ==
    IF n = 0 THEN {<<>>}
    ELSE {<<seg>> \o rest : seg \in SegmentsAt(n), rest \in SegmentLists(n - 1)}

Topics == {Join(segs) : segs \in UNION {SegmentLists(n) : n \in 1..MaxSegments}}

InitParse ==
    /\ states = <<>>
    /\ changed = <<>>
    /\ pushed = <<>>
    /\ recorded = <<>>
    /\ calls = 0
    /\ percent = 0
    /\ analog = None
    /\ now \in 0..MaxTime
    /\ topic \in Topics
    /\ text \in Payloads
    /\ result = None

FromMessage ==
    /\ result = None
    /\ result' = Some(from_message(topic, text, now))
    /\ UNCHANGED <<states, changed, now, pushed, recorded, topic, text, calls,
                   percent, analog>>

NextParse == FromMessage

ParseSpec == InitParse /\ [][NextParse]_vars

(***************************************************************************)
(* helper.rs percent_to_analog, and its specification: the function is     *)
(* applied once to an argument drawn from the whole of u8.                 *)
(***************************************************************************)
percent_to_analog_u16_product(num) ==
    IF num >= 100 THEN 1023 ELSE ((num * 1023) % 65536) \div 100

\* (num as u32 * 1023_u32 / 100) as u16: the product is at most 99 * 1023
\* here, the cast to u16 keeps the low 16 bits
percent_to_analog(num) ==
    IF num >= 100 THEN 1023 ELSE ((num * 1023) \div 100) % 65536

InitHelper ==
    /\ states = <<>>
    /\ changed = <<>>
    /\ pushed = <<>>
    /\ recorded = <<>>
    /\ calls = 0
    /\ now = 0
    /\ topic = <<>>
    /\ text = <<>>
    /\ result = None
    /\ percent \in 0..255
    /\ analog = None

PercentToAnalog ==
    /\ analog = None
    /\ analog' = Some(percent_to_analog(percent))
    /\ UNCHANGED <<states, changed, now, pushed, recorded, topic, text, result,
                   calls, percent>>

NextHelper == PercentToAnalog

HelperSpec == InitHelper /\ [][NextHelper]_vars

(***************************************************************************)
(* Vocabulary of the properties                                            *)
(***************************************************************************)
Last(s) == s[Len(s)]
LastN(s, n) == SubSeq(s, Len(s) - Min(Len(s), n) + 1, Len(s))

\* the step is a call of push; PushedState is its argument
IsPush == Len(pushed') = Len(pushed) + 1
PushedState == Last(pushed')

\* on/off class of a Digital or Analog value
OnClass(value) ==
    \/ value.kind = "Digital" /\ value.b = TRUE
    \/ value.kind = "Analog" /\ value.n > 0

FrontExpired(clock) ==
    /\ changed # <<>>
    /\ changed[1].until # None
    /\ changed[1].until[1] <= clock

\* a is an order-preserving subsequence of b, matching from a[i], b[j] on
RECURSIVE SubseqFrom(_, _, _, _)
SubseqFrom(a, b, i, j) ==
    IF i > Len(a) THEN TRUE
    ELSE IF j > Len(b) THEN FALSE
    ELSE IF a[i] = b[j] THEN SubseqFrom(a, b, i + 1, j + 1)
    ELSE SubseqFrom(a, b, i, j + 1)
IsSubseq(a, b) == SubseqFrom(a, b, 1, 1)

\* the most recent Digital state of a history (oldest first), as an Option
LastDigital(h) ==
    LET idx == {i \in 1..Len(h) : h[i].value.kind = "Digital"}
    IN  IF idx = {} THEN None
        ELSE Some(h[CHOOSE i \in idx : \A j \in idx : j <= i])

(***************************************************************************)
(* C1: is_on() is true exactly when `changed` is non-empty, the front      *)
(* entry's `until` is absent or strictly greater than now, and the front   *)
(* value is Digital(true) or Analog(v) with v > 0; it is false when        *)
(* until = now and false on an empty collection.                           *)
(***************************************************************************)
C1_IsOnIff ==
    /\ is_on(col, now) <=>
          /\ changed # <<>>
          /\ (changed[1].until = None \/ changed[1].until[1] > now)
          /\ OnClass(changed[1].value)
    /\ changed = <<>> => ~is_on(col, now)
    /\ (changed # <<>> /\ changed[1].until = Some(now)) => ~is_on(col, now)

\* an on-shaped front entry pushed with an expiry equal to the clock
C1_Witness ==
    /\ calls > 0
    /\ changed # <<>>
    /\ changed[1] = Last(pushed)
    /\ changed[1].until = Some(now)
    /\ changed[1].value = Analog(50)
    /\ ~is_on(col, now)

(***************************************************************************)
(* C2: is_on() and is_off() are never both true, and both are false when   *)
(* `changed` is empty or its front entry has an expiry <= now, whatever    *)
(* the front's raw value.                                                  *)
(***************************************************************************)
C2_OnOffExclusive ==
    /\ ~(is_on(col, now) /\ is_off(col, now))
    /\ (changed = <<>> \/ FrontExpired(now))
          => (~is_on(col, now) /\ ~is_off(col, now))

\* an off-shaped front entry whose expiry lies in the past
C2_Witness ==
    /\ calls > 0
    /\ FrontExpired(now)
    /\ changed[1].until[1] < now
    /\ changed[1].value = Digital(FALSE)
    /\ ~is_on(col, now)
    /\ ~is_off(col, now)

(***************************************************************************)
(* C3: a push of a Digital or Analog state puts exactly that state at the  *)
(* front of `changed` when `changed` holds no entry of the same variant or *)
(* the most recent same-variant entry has the other on/off class; in every *)
(* other case the push leaves `changed` as it was.                         *)
(***************************************************************************)
C3_PushRecordsClassChange ==
    [][(IsPush /\ PushedState.value.kind \in {"Digital", "Analog"}) =>
          LET s == PushedState
              same == {i \in 1..Len(changed) : changed[i].value.kind = s.value.kind}
              recent == CHOOSE i \in same : \A j \in same : i <= j
          IN  IF same = {} \/ OnClass(changed[recent].value) # OnClass(s.value)
              THEN /\ changed'[1] = s
                   /\ Tail(changed') =
                         SubSeq(changed, 1, Min(Len(changed), CAPACITY - 1))
              ELSE changed' = changed]_vars

\* Analog 50 then Analog 80: the second push is not recorded
C3_Witness ==
    /\ calls = 2
    /\ Last(pushed).value = Analog(80)
    /\ pushed[Len(pushed) - 1].value = Analog(50)
    /\ changed # <<>>
    /\ changed[1] = pushed[Len(pushed) - 1]

(***************************************************************************)
(* C4: pushing a Digital state whose boolean equals that of the most       *)
(* recently pushed Digital state never adds an entry to `changed`, also    *)
(* after entries were evicted from the 20-slot `changed` buffer.           *)
(***************************************************************************)
C4_NoDuplicateDigital ==
    [][(/\ IsPush
        /\ PushedState.value.kind = "Digital"
        /\ LastDigital(pushed) # None
        /\ LastDigital(pushed)[1].value.b = PushedState.value.b)
          => changed' = changed]_vars

(***************************************************************************)
(* C5: a push of a Temperature state leaves `changed` unchanged and only   *)
(* adds the state to `states`; no entry of `changed` is ever a             *)
(* Temperature; is_on, is_off, get_last_changed, get_last_changed_dt and   *)
(* get_last_changed_value at a fixed clock are the same before and after.  *)
(***************************************************************************)
C5_TemperatureNotRecorded ==
    /\ [][(IsPush /\ PushedState.value.kind = "Temperature") =>
            LET before == [states |-> states, changed |-> changed]
                after == [states |-> states', changed |-> changed']
            IN  /\ changed' = changed
                /\ states'[1] = PushedState
                /\ \A clock \in 0..MaxTime :
                      /\ is_on(after, clock) = is_on(before, clock)
                      /\ is_off(after, clock) = is_off(before, clock)
                /\ get_last_changed(after) = get_last_changed(before)
                /\ get_last_changed_dt(after) = get_last_changed_dt(before)
                /\ get_last_changed_value(after) = get_last_changed_value(before)]_vars
    /\ [](\A i \in 1..Len(changed) : changed[i].value.kind # "Temperature")

\* a Temperature pushed onto a collection that has recorded transitions
C5_Witness ==
    /\ calls > 0
    /\ Last(pushed).value.kind = "Temperature"
    /\ states[1] = Last(pushed)
    /\ changed # <<>>
    /\ changed[1] # Last(pushed)

(***************************************************************************)
(* C6: `states` holds exactly the min(n, 20) most recently pushed states,  *)
(* newest first: never more than 20, the last pushed state at index 0, and *)
(* a push onto a full buffer evicts the oldest retained state only.        *)
(***************************************************************************)
C6_StatesAreLastPushed ==
    /\ Len(states) <= CAPACITY
    /\ states = Reverse(LastN(pushed, CAPACITY))

\* more than 20 states pushed: the oldest ones are gone
C6_Witness ==
    /\ calls > 0
    /\ Len(pushed) > CAPACITY
    /\ Len(states) = CAPACITY
    /\ states[1] = Last(pushed)
    /\ states[CAPACITY] = pushed[Len(pushed) - CAPACITY + 1]

(***************************************************************************)
(* C7: `changed` has at most 20 entries; read oldest to newest it is an    *)
(* order-preserving subsequence of all states ever pushed, made of the     *)
(* most recent (up to 20) states push recorded as transitions, the most    *)
(* recently recorded one at index 0.                                       *)
(***************************************************************************)
C7_ChangedAreLastRecorded ==
    /\ Len(changed) <= CAPACITY
    /\ changed = Reverse(LastN(recorded, CAPACITY))
    /\ IsSubseq(Reverse(changed), pushed)

\* more than 20 transitions recorded, the last of them after construction
C7_Witness ==
    /\ calls > 0
    /\ Len(recorded) > CAPACITY
    /\ Len(changed) = CAPACITY
    /\ changed[1] = Last(pushed)
    /\ changed[1] = Last(recorded)

(***************************************************************************)
(* Expected outcomes, written down independently of the parser             *)
(***************************************************************************)
\* numerals of the topics, with the numbers they denote
PinNumerals == {[s |-> <<"3">>, v |-> 3], [s |-> <<"8">>, v |-> 8]}
SecondNumerals == {[s |-> s_3600, v |-> 3600]}
\* kind and payload pairs the value decoder accepts, with the decoded value
Decodable ==
    {[kind |-> s_analog, payload |-> s_2332, value |-> Analog(2332)],
     [kind |-> s_analog, payload |-> s_2342, value |-> Analog(2342)],
     [kind |-> s_analog, payload |-> <<"1">>, value |-> Analog(1)],
     [kind |-> s_analog, payload |-> <<"0">>, value |-> Analog(0)],
     [kind |-> s_digital, payload |-> <<"1">>, value |-> Digital(TRUE)],
     [kind |-> s_digital, payload |-> <<"0">>, value |-> Digital(FALSE)]}
NodeNames == {s_node1, s_timeout, s_current}

Parsed == result # None
Outcome == result[1]

(***************************************************************************)
(* C8 as claimed: a topic <node>/timeout/<seconds>/<kind>/<pin> of exactly *)
(* five segments with a non-empty node, u32 seconds and a valid kind,      *)
(* payload and pin parses to an operation with that node, pin and value    *)
(* and with expiry = receive time + seconds.                               *)
(***************************************************************************)
C8_FiveSegmentTimeout ==
    Parsed =>
        \A node \in NodeNames, sec \in SecondNumerals,
           d \in Decodable, pin \in PinNumerals :
            (topic = Join(<<node, s_timeout, sec.s, d.kind, pin.s>>)
             /\ text = d.payload)
            => Outcome = Ok(PinOperation(
                               PinState(pin.v, d.value, now, Some(now + sec.v)),
                               node))

(***************************************************************************)
(* C8 amended: a topic <node>/current/timeout/<seconds>/<kind>/<pin> of    *)
(* exactly six segments, the shape of the code's documentation, with u32   *)
(* seconds and a valid kind, payload and pin parses to an operation with   *)
(* that node, pin and value and with expiry = receive time + seconds.      *)
(***************************************************************************)
C8_SixSegmentTimeout ==
    Parsed =>
        \A node \in NodeNames \cup {<<>>}, sec \in SecondNumerals,
           d \in Decodable, pin \in PinNumerals :
            (topic = Join(<<node, s_current, s_timeout, sec.s, d.kind, pin.s>>)
             /\ text = d.payload)
            => Outcome = Ok(PinOperation(
                               PinState(pin.v, d.value, now, Some(now + sec.v)),
                               node))

\* node1/current/timeout/3600/analog/8 with payload 2332, parsed
C8_Witness ==
    /\ Parsed
    /\ topic = Join(<<s_node1, s_current, s_timeout, s_3600, s_analog, <<"8">> >>)
    /\ text = s_2332
    /\ Outcome.ok
    /\ Outcome.val[1].node = s_node1
    /\ Outcome.val[1].pin_state.pin = 8
    /\ Outcome.val[1].pin_state.until = Some(now + 3600)

(***************************************************************************)
(* C9: a topic <node>/current/<kind>/<pin> with a non-empty one-segment    *)
(* node, a u8 pin and a kind and payload the decoder accepts parses to an  *)
(* operation with that node, pin and decoded value and no expiry.          *)
(***************************************************************************)
C9_CurrentShape ==
    Parsed =>
        \A node \in NodeNames, d \in Decodable, pin \in PinNumerals :
            (topic = Join(<<node, s_current, d.kind, pin.s>>) /\ text = d.payload)
            => Outcome = Ok(PinOperation(PinState(pin.v, d.value, now, None), node))

\* node1/current/analog/3 with payload 2342, parsed
C9_Witness ==
    /\ Parsed
    /\ topic = Join(<<s_node1, s_current, s_analog, <<"3">> >>)
    /\ text = s_2342
    /\ Outcome = Ok(PinOperation(PinState(3, Analog(2342), now, None), s_node1))

(***************************************************************************)
(* C10: when the third-from-last segment is not `current`, a parse that    *)
(* succeeds has an unsigned integer there, the literal `timeout` before    *)
(* it and a node segment before that, and its operation has an expiry;     *)
(* every other topic gives an error.                                       *)
(***************************************************************************)
C10_TimeoutOrError ==
    LET segs == split(topic)
        n == Len(segs)
    IN  (Parsed /\ Outcome.ok /\ n >= 3 /\ segs[n - 2] # s_current)
        => /\ parse_unsigned(segs[n - 2], U32_MAX) # None
           /\ n >= 5
           /\ segs[n - 3] = s_timeout
           /\ Outcome.val[1].pin_state.until # None

(***************************************************************************)
(* C11: every operation a successful parse returns has a non-empty node    *)
(* name; a topic whose node part is empty or absent is an error.           *)
(***************************************************************************)
C11_NodeNotEmpty ==
    (Parsed /\ Outcome.ok) => Outcome.val[1].node # <<>>

(***************************************************************************)
(* C12: parsing is total: for every topic and payload from_message returns *)
(* Ok or an error value and never panics, and every topic with fewer than  *)
(* four `/`-separated segments gives an error.                             *)
(***************************************************************************)
C12_ParseTotal ==
    Parsed =>
        /\ Outcome # Panic
        /\ Outcome.ok => Outcome.val # <<>>
        /\ ~Outcome.ok => (Outcome.val = <<>> /\ Outcome.err # "")
        /\ Cardinality({i \in 1..Len(topic) : topic[i] = "/"}) < 3 => ~Outcome.ok

\* the two-segment topic volt/x, parsed
C12_Witness ==
    /\ Parsed
    /\ topic = <<"v", "o", "l", "t", "/", "x">>
    /\ ~Outcome.ok
    /\ Outcome # Panic

(***************************************************************************)
(* What the payloads denote, written down independently of the decoder:    *)
(* int is the unsigned integer a payload writes (if it writes one), temp   *)
(* the decimal number it writes, in hundredths (if it writes one).         *)
(***************************************************************************)
PayloadMeaning ==
    {[s |-> s_2332, int |-> <<2332>>, temp |-> <<233200>>],
     [s |-> s_2342, int |-> <<2342>>, temp |-> <<234200>>],
     [s |-> <<"1">>, int |-> <<1>>, temp |-> <<100>>],
     [s |-> <<"0">>, int |-> <<0>>, temp |-> <<0>>],
     [s |-> <<"x">>, int |-> <<>>, temp |-> <<>>],
     [s |-> s_256, int |-> <<256>>, temp |-> <<25600>>],
     [s |-> s_70000, int |-> <<70000>>, temp |-> <<7000000>>],
     [s |-> s_20_5, int |-> <<>>, temp |-> <<2050>>],
     [s |-> <<"+", "1">>, int |-> <<1>>, temp |-> <<100>>],
     [s |-> <<>>, int |-> <<>>, temp |-> <<>>]}

Kinds == {s_digital, s_analog, s_temperature, <<"v", "o", "l", "t">>}

\* the decoder's result the claim gives for a kind and a payload
Decoded(kind, p) ==
    IF kind = s_digital
    THEN IF p.int # <<>> /\ p.int[1] \in 0..255
         THEN Ok(Digital(p.int[1] > 0))
         ELSE Err("Unable to parse digital value")
    ELSE IF kind = s_analog
    THEN IF p.int # <<>> /\ p.int[1] \in 0..65535
         THEN Ok(Analog(p.int[1]))
         ELSE Err("Unable to parse analog value")
    ELSE IF kind = s_temperature
    THEN IF p.temp # <<>>
         THEN Ok(Temperature(p.temp[1]))
         ELSE Err("Unable to parse temparature value")
    ELSE Err("Unknown pin value type")

(***************************************************************************)
(* C13: the value decoder gives Digital(n > 0) for kind `digital` and a    *)
(* payload writing an integer n in 0..=255, Analog(n) for kind `analog`    *)
(* and a payload writing an unsigned 16-bit integer n, Temperature for     *)
(* kind `temperature` and a payload writing a number, the payload error of *)
(* the kind for any other payload, and the unknown-kind error for every    *)
(* other kind whatever the payload.  The decoder is observed through the   *)
(* topics node1/current/<kind>/3, whose outcome is the decoder's.          *)
(***************************************************************************)
C13_DecoderTable ==
    Parsed =>
        \A kind \in Kinds, p \in PayloadMeaning :
            (topic = Join(<<s_node1, s_current, kind, <<"3">> >>) /\ text = p.s)
            => /\ from_string(kind, text) = Decoded(kind, p)
               /\ Outcome =
                     IF Decoded(kind, p).ok
                     THEN Ok(PinOperation(
                                PinState(3, Decoded(kind, p).val[1], now, None),
                                s_node1))
                     ELSE Decoded(kind, p)

\* digital with payload 256: beyond u8, the digital-payload error
C13_Witness ==
    /\ Parsed
    /\ topic = Join(<<s_node1, s_current, s_digital, <<"3">> >>)
    /\ text = s_256
    /\ Outcome = Err("Unable to parse digital value")

(***************************************************************************)
(* C14 as claimed: every Analog value the parser produces lies in          *)
(* 0..=1023.                                                               *)
(***************************************************************************)
C14_AnalogWithin1023 ==
    (Parsed /\ Outcome.ok /\ Outcome.val[1].pin_state.value.kind = "Analog")
        => Outcome.val[1].pin_state.value.n \in 0..1023

(***************************************************************************)
(* C14 amended: every Analog value the parser produces lies in 0..=65535,  *)
(* the range of u16.                                                       *)
(***************************************************************************)
C14_AnalogWithinU16 ==
    (Parsed /\ Outcome.ok /\ Outcome.val[1].pin_state.value.kind = "Analog")
        => Outcome.val[1].pin_state.value.n \in 0..65535

\* the payload 2342 of the documentation, parsed as an analog value
C14_Witness ==
    /\ Parsed
    /\ text = s_2342
    /\ Outcome.ok
    /\ Outcome.val[1].pin_state.value = Analog(2342)

(***************************************************************************)
(* C15: get_average_temperature(since) is None exactly when none of the    *)
(* retained states (the at most 20 most recent pushes) is a Temperature    *)
(* with dt > since; otherwise it is the arithmetic mean of exactly those   *)
(* readings, whatever Analog, Digital and older states are retained.       *)
(***************************************************************************)
\* the sum of f[i] over the indices i in S
RECURSIVE SumOver(_, _)
SumOver(S, f) ==
    IF S = {} THEN 0
    ELSE LET i == CHOOSE j \in S : TRUE
         IN  f[i] + SumOver(S \ {i}, f)

C15_AverageOfRetainedReadings ==
    \A since \in (0 - 1)..MaxTime :
        LET retained == LastN(pushed, CAPACITY)
            readings == {i \in 1..Len(retained) :
                            /\ retained[i].value.kind = "Temperature"
                            /\ retained[i].dt > since}
            total == SumOver(readings, [i \in 1..Len(retained) |-> retained[i].value.n])
            got == get_average_temperature(col, since)
        IN  /\ got = None <=> readings = {}
            /\ readings # {} =>
                  /\ got[1].den > 0
                  /\ got[1].num * Cardinality(readings) = total * got[1].den

\* readings older and newer than `since` and a state that is no reading
C15_Witness ==
    /\ calls > 0
    /\ \E i \in 1..Len(states) : states[i].value.kind # "Temperature"
    /\ get_average_temperature(col, 0) # None
    /\ get_average_temperature(col, 0 - 1) # None
    /\ get_average_temperature(col, 0)[1].den
          < get_average_temperature(col, 0 - 1)[1].den

(***************************************************************************)
(* C16: get_last_changed() is None exactly when no Digital or Analog state *)
(* was ever pushed (a non-empty `changed` never becomes empty again);      *)
(* otherwise it is the front entry of `changed`, and get_last_changed_dt() *)
(* and get_last_changed_value() are that entry's dt and value.             *)
(***************************************************************************)
C16_LastChangedIsFront ==
    LET ever == \E i \in 1..Len(pushed) : pushed[i].value.kind \in {"Digital", "Analog"}
    IN  /\ get_last_changed(col) = None <=> ~ever
        /\ ever =>
              /\ changed # <<>>
              /\ get_last_changed(col) = Some(changed[1])
              /\ get_last_changed_dt(col) = Some(changed[1].dt)
              /\ get_last_changed_value(col) = Some(changed[1].value)
        /\ ~ever =>
              /\ get_last_changed_dt(col) = None
              /\ get_last_changed_value(col) = None

\* a transition recorded after construction, in front of older ones
C16_Witness ==
    /\ calls > 0
    /\ Len(changed) > 1
    /\ changed[1] = Last(pushed)
    /\ changed[1].dt > changed[Len(changed)].dt
    /\ get_last_changed_dt(col) = Some(now)

(***************************************************************************)
(* C17: for every p in 0..=255, percent_to_analog(p) is                    *)
(* floor(p * 1023 / 100) when p < 100 and 1023 when p >= 100; it lies in   *)
(* 0..=1023, is non-decreasing in p, and the product p * 1023 does not     *)
(* overflow (it stays below 2^31, hence within u32); 0 -> 0, 50 -> 511,    *)
(* 100 -> 1023, 200 -> 1023.                                               *)
(***************************************************************************)
C17_PercentToAnalog ==
    analog # None =>
        LET p == percent
            r == analog[1]
        IN  /\ p < 100 => (r * 100 <= p * 1023 /\ p * 1023 < (r + 1) * 100)
            /\ p >= 100 => r = 1023
            /\ r \in 0..1023
            /\ \A q \in 0..p : percent_to_analog(q) <= r
            /\ p * 1023 <= 2147483647
            /\ p = 0 => r = 0
            /\ p = 50 => r = 511
            /\ p = 100 => r = 1023
            /\ p = 200 => r = 1023

\* 99 percent, the largest argument that is scaled: 1012
C17_Witness ==
    /\ percent = 99
    /\ analog = Some(1012)

(***************************************************************************)
(* C18: for every sequence s of states, also longer than 20,               *)
(* from_states(s) has the `states` and `changed` of the collection that    *)
(* starts as default() and is pushed each element of s, oldest first.      *)
(* `pushed` is the sequence of all states pushed so far; the collection in *)
(* the variables received the later ones by separate calls of push.        *)
(***************************************************************************)
C18_FromStatesIsReplay ==
    [](from_states(pushed) = [states |-> states, changed |-> changed])

\* more than 20 states, the last two pushed one by one after construction
C18_Witness ==
    /\ calls = 2
    /\ Len(pushed) > CAPACITY
    /\ Len(recorded) > CAPACITY
    /\ from_states(pushed) = col
    /\ pushed[Len(pushed)].value.kind = "Digital"
    /\ pushed[Len(pushed) - 1].value.kind = "Analog"

(***************************************************************************)
(* C19: once the clock has reached the expiry of the front entry of        *)
(* `changed`, is_on() and is_off() are false and stay false through a      *)
(* clock advance, a Temperature push and a push of a state of the front's  *)
(* variant and on/off class (whatever expiry it carries: the front entry   *)
(* is neither replaced nor refreshed); they become true again only by a    *)
(* push that records a new transition.                                     *)
(***************************************************************************)
SameClassAsFront(s) ==
    /\ changed # <<>>
    /\ s.value.kind = changed[1].value.kind
    /\ OnClass(s.value) = OnClass(changed[1].value)

C19_ExpiredStaysInactive ==
    [][FrontExpired(now) =>
          LET after == [states |-> states', changed |-> changed']
          IN  /\ ~is_on(col, now) /\ ~is_off(col, now)
              /\ (\/ ~IsPush
                  \/ PushedState.value.kind = "Temperature"
                  \/ SameClassAsFront(PushedState))
                    => /\ changed' = changed
                       /\ ~is_on(after, now')
                       /\ ~is_off(after, now')
              /\ (is_on(after, now') \/ is_off(after, now'))
                    => /\ IsPush
                       /\ changed' # changed
                       /\ changed'[1] = PushedState]_vars

\* an expired front entry, then a state of its variant and class pushed
\* without expiry: the front entry is still the expired one
C19_Witness ==
    /\ calls = 2
    /\ FrontExpired(now)
    /\ changed[1] = pushed[Len(pushed) - 1]
    /\ Last(pushed) # changed[1]
    /\ Last(pushed).value.kind = changed[1].value.kind
    /\ OnClass(Last(pushed).value) = OnClass(changed[1].value)
    /\ Last(pushed).until = None
    /\ Last(pushed).dt >= changed[1].until[1]
    /\ ~is_on(col, now)
    /\ ~is_off(col, now)

(***************************************************************************)
(* C20: in every reachable state the entries of `changed` of one variant   *)
(* alternate in on/off class: two Digital entries with no Digital entry    *)
(* between them hold different booleans, and of two Analog entries with no *)
(* Analog entry between them one holds 0 and the other a value above 0,    *)
(* whatever entries of the other variant lie between them and whatever the *)
(* 20-slot buffer has dropped.                                             *)
(***************************************************************************)
OfKind(kind) == SelectSeq(changed, LAMBDA s : s.value.kind = kind)

C20_ChangedAlternates ==
    /\ LET digital == OfKind("Digital")
       IN  \A i \in 1..(Len(digital) - 1) :
               digital[i].value.b # digital[i + 1].value.b
    /\ LET analog_entries == OfKind("Analog")
       IN  \A i \in 1..(Len(analog_entries) - 1) :
               \/ analog_entries[i].value.n = 0 /\ analog_entries[i + 1].value.n > 0
               \/ analog_entries[i].value.n > 0 /\ analog_entries[i + 1].value.n = 0

AdjacentAmong(kind, i, j) ==
    /\ i < j
    /\ changed[i].value.kind = kind
    /\ changed[j].value.kind = kind
    /\ \A k \in (i + 1)..(j - 1) : changed[k].value.kind # kind

\* a full buffer that has dropped an entry, with a Digital entry between
\* the two newest Analog entries
C20_Witness ==
    /\ calls > 0
    /\ Len(recorded) > CAPACITY
    /\ Len(changed) = CAPACITY
    /\ AdjacentAmong("Analog", 1, 3)
    /\ changed[2].value.kind = "Digital"
    /\ changed[1] = Last(pushed)

====
